---------------------------- MODULE Spec2Model ----------------------------
(***************************************************************************)
(* URTeleop: the launch orchestrator (gello/utils/launch_utils.py) and the *)
(* DH gripper driver (gello/robots/dh_gripper.py).                         *)
(*                                                                         *)
(* Joint angles are fixed-point integers: one unit is 0.01 / Res radians,  *)
(* so 0.01 is Res units and 1.0 is 100 * Res units.  A vector handed to    *)
(* env.step is a rational vector [num, den] (num[i] / den per joint):      *)
(* the convergence scaling and np.linspace both divide.                    *)
(***************************************************************************)
EXTENDS Integers, Sequences, FiniteSets, TLC

\* ------------------------------------------------------------- bounds
\* grid points per 0.01 rad
Res == 2
\* how many trailing joints of a joint vector vary (the others are 0)
Vary == 2
\* ticks of the unbounded main loop that are explored
MaxRunTicks == 2

\* polls that are counted
MaxPolls == 2
\* calls of move() that are explored
MaxMoves == 2

\* ------------------------------------------------- program constants
\* launch_utils.py:138 and :155, 1.0 rad
MaxJointDelta == 100 * Res
max_delta == 100 * Res
\* launch_utils.py:156, range(25)
ConvergeIters == 25
\* launch_utils.py:230, the 0.01 divisor and the cap of 100 steps
StepSize == Res
MaxSteps == 100
\* launch_utils.py:223, reset_joints[:6]
ArmDof == 6

\* dh_gripper.py:53, the closed end of the binary range, in tenths
HighTarget == 10000

None == "None"
\* dh_gripper.py:10, None in an integer slot
Null == -1
\* an attribute that __init__ never assigned
Absent == -2
\* no vector yet, and no command yet
NoVec == << >>
NoCmd == [num |-> << >>, den |-> 1]
\* no result of get_current_position() in the caller's hands
NoGet == [kind |-> "none", val |-> Null, polls |-> 0, lock |-> "free"]

\* ------------------------------------------------------ input domains
\* joint values the environment reports: 0 and one grid unit
ObsVals == {0, 1}
\* agent outputs: -3.0, 0, exactly 1.0, one grid unit above 1.0, 3.0
ActVals == {-3 * MaxJointDelta, 0, MaxJointDelta, MaxJointDelta + 1,
            3 * MaxJointDelta}
\* configured start joints: 0, one grid unit, 0.02, 1.5
StartVals == {0, 1, 2 * Res, 150 * Res}
\* joint vectors have the robot's real length, 6 (arm) or 7 (arm + gripper)
Dims == {ArmDof, ArmDof + 1}

Vec(n, vals) ==
    { [i \in 1..n |-> IF i > n - Vary THEN f[i - (n - Vary)] ELSE 0] :
        f \in [1..Vary -> vals] }

Zeros(n) == [i \in 1..n |-> 0]

\* ----------------------------------------------------- numpy helpers
Abs(x) == IF x < 0 THEN -x ELSE x

Min(a, b) == IF a < b THEN a ELSE b

\* np.abs(a - b), elementwise
AbsDeltas(a, b) == [i \in 1..Len(a) |-> Abs(a[i] - b[i])]

\* np.argmax: the first index of the largest entry
ArgMax(v) ==
    CHOOSE i \in 1..Len(v) :
        /\ \A j \in 1..Len(v) : v[j] <= v[i]
        /\ \A j \in 1..(i - 1) : v[j] < v[i]

\* np.abs(v).max()
MaxAbs(v) == LET a == [i \in 1..Len(v) |-> Abs(v[i])] IN a[ArgMax(a)]

\* a rational vector with denominator 1
Exact(v) == [num |-> v, den |-> 1]

\* reset_joints[:6]
Truncate(v) == IF Len(v) > ArmDof THEN SubSeq(v, 1, ArmDof) ELSE v


\* ------------------------------------------------------------- state
VARIABLES
    entry,        \* the operation the caller invoked
    pc,           \* where the orchestrator is in its code
    robot,        \* self.robot: None, or an object with or without close()
    envDim,       \* length of the joint vector self.env reports (0: no env)
    agentDim,     \* length of the vector self.agent returns (0: no agent)
    phase,        \* the orchestrator's state (spec section 4.4)
    err,          \* the exception in flight, or None
    closeCalls,   \* calls of robot.close()
    iter,         \* index of the running for loop
    runTicks,     \* ticks of the main loop so far
    stepCalls,    \* calls of env.step so far
    stepCmd,      \* the vector of the current iteration's env.step call
    stepObs,      \* the joints observed for that call
    stepAct,      \* the agent's output for that call
    firstExceeds, \* the first agent output differed by more than 1.0 somewhere
    start_pos,    \* run_control_loop's start_pos
    curr_joints,  \* move_to_start_position's curr_joints
    reset_joints, \* move_to_start_position's reset_joints
    steps,        \* move_to_start_position's steps
    faults,       \* the external failures and interruptions that happened
    skipped,      \* why move_to_start_position returned before its loop
    \* ---- DhGripper
    binary_mode,  \* self.binary_mode
    threshold,    \* self.threshold, in tenths of a position unit
    position,     \* self.position: None, or the last collapsed target
    u_position,   \* self._position: absent, or the last polled position
    stop_flag,    \* self._stop_flag
    lock,         \* self._lock: free, or the thread that holds it
    pollPc,       \* where the polling thread is
    pos,          \* the polling thread's local pos
    polls,        \* polls completed (a read stored), up to MaxPolls
    mainPc,       \* where the caller's thread is
    target_pos,   \* move's local target_pos, in tenths
    moves,        \* calls of move() so far
    sent,         \* the value set_pos delivered to the device last, if any
    lastGet,      \* how get_current_position() ended, until the caller's next call
    calls,        \* the last two calls of move(): target and outcome
    cmds          \* device calls made by the latest call of move()

\* the orchestrator's own fields and position
mgr == << entry, robot, envDim, agentDim, phase, closeCalls >>

\* the locals of the running operation
frame == << iter, stepCmd, stepObs, stepAct, start_pos, curr_joints,
            reset_joints, steps >>

\* what is recorded about the run
hist == << runTicks, stepCalls, firstExceeds, skipped >>

varsL == << entry, pc, robot, envDim, agentDim, phase, err, closeCalls, iter,
            runTicks, stepCalls, stepCmd, stepObs, stepAct, firstExceeds,
            start_pos, curr_joints, reset_joints, steps, faults, skipped >>

varsG == << binary_mode, threshold, position, u_position, stop_flag, lock,
            pollPc, pos, polls, mainPc, target_pos, moves, sent, lastGet, calls,
            cmds >>

vars == << varsL, varsG >>

InitLaunch ==
    /\ entry = None
    /\ pc = "idle"
    /\ robot = None
    /\ envDim = 0
    /\ agentDim = 0
    /\ phase = "Idle"
    /\ err = None
    /\ closeCalls = 0
    /\ iter = 0
    /\ runTicks = 0
    /\ stepCalls = 0
    /\ stepCmd = NoCmd
    /\ stepObs = NoVec
    /\ stepAct = NoVec
    /\ firstExceeds = FALSE
    /\ start_pos = NoVec
    /\ curr_joints = NoVec
    /\ reset_joints = NoVec
    /\ steps = 0
    /\ faults = {}
    /\ skipped = "no"

\* ------------------------------------------------ exceptions, returns
\* the operation's frame is left: its locals are gone
DropFrame ==
    /\ iter' = 0
    /\ stepCmd' = NoCmd
    /\ stepObs' = NoVec
    /\ stepAct' = NoVec
    /\ start_pos' = NoVec
    /\ curr_joints' = NoVec
    /\ reset_joints' = NoVec
    /\ steps' = 0

\* An exception raised in the body of launch's try goes to the matching
\* except clause; raised in an operation the caller invoked itself, it
\* goes to the caller.
Raise(e) ==
    /\ err' = e
    /\ pc' = IF entry = "launch"
             THEN (IF e = "KeyboardInterrupt" THEN "except_kbd" ELSE "except_exc")
             ELSE "done"
    /\ DropFrame

\* run_control_loop returns: launch falls into its finally clause
ReturnFromLoop == IF entry = "launch" THEN "finally" ELSE "done"

\* move_to_start_position returns: launch goes on to run_control_loop()
ReturnFromStart == IF entry = "launch" THEN "validate_agent_output" ELSE "done"

\* hasattr(self.robot, "close")
HasClose(r) == r = "closable"

\* ------------------------------------------------------------ launch
CallLaunch ==
    /\ pc = "idle"
    /\ entry' = "launch"
    /\ pc' = "setup_robot"
    /\ UNCHANGED << robot, envDim, agentDim, phase, err, closeCalls, faults,
                    frame, hist >>
    /\ UNCHANGED varsG

\* self.setup_robot(): the robot is instantiated from the configuration
SetupRobot ==
    /\ pc = "setup_robot"
    /\ \E r \in {"closable", "noclose"} : robot' = r
    /\ phase' = "RobotReady"
    /\ pc' = "setup_communication"
    /\ UNCHANGED << entry, envDim, agentDim, err, closeCalls, faults, frame, hist >>
    /\ UNCHANGED varsG

\* self.setup_communication(): server thread, client, self.env
SetupCommunication ==
    /\ pc = "setup_communication"
    /\ envDim' \in Dims
    /\ phase' = "TransportReady"
    /\ pc' = "setup_agent"
    /\ UNCHANGED << entry, robot, agentDim, err, closeCalls, faults, frame, hist >>
    /\ UNCHANGED varsG

\* self.setup_agent()
SetupAgent ==
    /\ pc = "setup_agent"
    /\ agentDim' \in Dims
    /\ phase' = "AgentReady"
    /\ pc' = "move_to_start_position"
    /\ UNCHANGED << entry, robot, envDim, err, closeCalls, faults, frame, hist >>
    /\ UNCHANGED varsG

\* a setup step raises (import, instantiation, connection)
SetupRaises ==
    /\ pc \in {"setup_robot", "setup_communication", "setup_agent"}
    /\ Raise("Exception")
    /\ faults' = faults \cup {"setup_raise"}
    /\ UNCHANGED << mgr, hist >>
    /\ UNCHANGED varsG

\* def move_to_start_position(env, robot, bimanual=False, left_cfg=None,
\* right_cfg=None): the parameters without a default
RequiredParams == {"env", "robot"}

\* move_to_start_position(self.env, left_cfg=self.cfg): one positional
\* argument, bound to env, and the keyword left_cfg
LaunchCallBinds == {"env", "left_cfg"}

MissingArgs == RequiredParams \ LaunchCallBinds

\* launch's call of move_to_start_position: Python binds the arguments
\* before the body runs and raises TypeError for a missing one
LaunchCallsStart ==
    /\ pc = "move_to_start_position"
    /\ IF MissingArgs = {}
       THEN pc' = "msp_body" /\ err' = err /\ UNCHANGED frame
       ELSE Raise("TypeError")
    /\ UNCHANGED << mgr, faults, hist >>
    /\ UNCHANGED varsG

\* KeyboardInterrupt while the setup steps of the try body run
InterruptBody ==
    /\ pc \in {"setup_robot", "setup_communication", "setup_agent",
               "move_to_start_position"}
    /\ Raise("KeyboardInterrupt")
    /\ faults' = faults \cup {"intr_body"}
    /\ UNCHANGED << mgr, hist >>
    /\ UNCHANGED varsG

\* the handler prints and re-raises instead of swallowing
HandleKeyboardInterruptReraise ==
    /\ pc = "except_kbd"
    /\ phase' = "Stopped"
    /\ err' = err
    /\ pc' = "finally"
    /\ UNCHANGED << entry, robot, envDim, agentDim, closeCalls, faults, frame, hist >>
    /\ UNCHANGED varsG

\* except KeyboardInterrupt: print, the exception is handled
HandleKeyboardInterrupt ==
    /\ pc = "except_kbd"
    /\ phase' = "Stopped"
    /\ err' = None
    /\ pc' = "finally"
    /\ UNCHANGED << entry, robot, envDim, agentDim, closeCalls, faults, frame, hist >>
    /\ UNCHANGED varsG

\* the re-raise leaves launch without the cleanup, as it would were the
\* close placed after the try statement instead of in a finally clause
HandleExceptionNoCleanup ==
    /\ pc = "except_exc"
    /\ phase' = "Failed"
    /\ err' = err
    /\ pc' = "done"
    /\ UNCHANGED << entry, robot, envDim, agentDim, closeCalls, faults, frame, hist >>
    /\ UNCHANGED varsG

\* except Exception as e: print, raise
HandleException ==
    /\ pc = "except_exc"
    /\ phase' = "Failed"
    /\ err' = err
    /\ pc' = "finally"
    /\ UNCHANGED << entry, robot, envDim, agentDim, closeCalls, faults, frame, hist >>
    /\ UNCHANGED varsG

\* KeyboardInterrupt while a handler prints: it leaves the try statement
\* through the finally clause
InterruptHandler ==
    /\ pc \in {"except_kbd", "except_exc"}
    /\ phase' = IF pc = "except_kbd" THEN "Stopped" ELSE "Failed"
    /\ err' = "KeyboardInterrupt"
    /\ pc' = "finally"
    /\ faults' = faults \cup {"intr_handler"}
    /\ UNCHANGED << entry, robot, envDim, agentDim, closeCalls, frame, hist >>
    /\ UNCHANGED varsG

\* finally: if hasattr(self.robot, "close"): self.robot.close()
Finally ==
    /\ pc = "finally"
    /\ IF HasClose(robot)
       THEN closeCalls' = closeCalls + 1 /\ pc' = "closing"
       ELSE closeCalls' = closeCalls /\ pc' = "done"
    /\ UNCHANGED << entry, robot, envDim, agentDim, phase, err, faults, frame, hist >>
    /\ UNCHANGED varsG

\* robot.close() returns: the exception in flight, if any, goes on
CloseReturns ==
    /\ pc = "closing"
    /\ pc' = "done"
    /\ UNCHANGED << mgr, err, faults, frame, hist >>
    /\ UNCHANGED varsG

\* robot.close() raises, or is interrupted: that exception leaves launch
CloseFails ==
    /\ pc = "closing"
    /\ \E f \in {"close_raise", "intr_close"} :
          /\ faults' = faults \cup {f}
          /\ err' = IF f = "intr_close" THEN "KeyboardInterrupt" ELSE "Exception"
    /\ pc' = "done"
    /\ UNCHANGED << mgr, frame, hist >>
    /\ UNCHANGED varsG

\* ---------------------------------------------- move_to_start_position
\* the k-th of the n points of np.linspace(a, b, n), k in 0..n-1: n = 1
\* gives the start point alone
Linspace(a, b, n, k) ==
    IF n = 1
    THEN Exact(a)
    ELSE [num |-> [i \in 1..Len(a) |-> a[i] * (n - 1) + k * (b[i] - a[i])],
          den |-> n - 1]

\* the count without its cap: int(max_delta / 0.01)
StepCountUncapped(curr, reset) == MaxAbs(AbsDeltas(curr, reset)) \div StepSize

\* steps = min(int(max_delta / 0.01), 100)
StepCount(curr, reset) == Min(MaxAbs(AbsDeltas(curr, reset)) \div StepSize, MaxSteps)

\* the caller, holding an environment and a robot, invokes
\* move_to_start_position(env, robot, ...) itself
CallMoveToStart ==
    /\ pc = "idle"
    /\ entry' = "move_to_start_position"
    /\ envDim' \in Dims
    /\ pc' = "msp_body"
    /\ UNCHANGED << robot, agentDim, phase, err, closeCalls, faults, frame, hist >>
    /\ UNCHANGED varsG

\* the start joints a configuration can hold
StartConfigs == {NoVec} \cup UNION { Vec(n, StartVals) : n \in Dims }

\* the body up to the loop: the configured target, the current joints,
\* the truncation for a robot without gripper, the shape check, steps.
\* NoVec stands for a start_joints that is missing or None.
MoveToStartBody ==
    /\ pc = "msp_body"
    /\ \E bimanual \in BOOLEAN, use_gripper \in BOOLEAN,
          left_start \in StartConfigs,
          right \in {"no_cfg", "no_start", "start"},
          curr \in Vec(envDim, ObsVals) :
          LET right_start == Zeros(ArmDof)
              configured == IF bimanual
                            THEN right = "start" /\ left_start # NoVec
                            ELSE left_start # NoVec
              target == IF bimanual THEN left_start \o right_start ELSE left_start
              reset == IF use_gripper THEN target ELSE Truncate(target)
          IN  /\ ~bimanual => right = "no_cfg"
              /\ IF ~configured
                 THEN /\ pc' = ReturnFromStart
                      /\ skipped' = "no_start_joints"
                      /\ UNCHANGED << curr_joints, reset_joints, steps >>
                 ELSE IF Len(reset) # Len(curr)
                 THEN /\ pc' = ReturnFromStart
                      /\ skipped' = "shape_mismatch"
                      /\ UNCHANGED << curr_joints, reset_joints, steps >>
                 ELSE /\ pc' = "msp_loop"
                      /\ skipped' = skipped
                      /\ curr_joints' = curr
                      /\ reset_joints' = reset
                      /\ steps' = StepCount(curr, reset)
    /\ UNCHANGED << mgr, err, faults, runTicks, stepCalls, firstExceeds, iter,
                    stepCmd, stepObs, stepAct, start_pos >>
    /\ UNCHANGED varsG

\* for jnt in np.linspace(curr_joints, reset_joints, steps): env.step(jnt)
MoveToStartStep ==
    /\ pc = "msp_loop"
    /\ iter < steps
    /\ stepCmd' = Linspace(curr_joints, reset_joints, steps, iter)
    /\ stepObs' = curr_joints
    /\ stepCalls' = stepCalls + 1
    /\ iter' = iter + 1
    /\ UNCHANGED << mgr, pc, err, faults, runTicks, firstExceeds, skipped, stepAct,
                    start_pos, curr_joints, reset_joints, steps >>
    /\ UNCHANGED varsG

\* the loop is exhausted and the function returns
MoveToStartReturn ==
    /\ pc = "msp_loop"
    /\ iter = steps
    /\ pc' = ReturnFromStart
    /\ DropFrame
    /\ UNCHANGED << mgr, err, faults, hist >>
    /\ UNCHANGED varsG

\* ---------------------------------------------------- run_control_loop
\* the caller, having set up robot, transport and agent, invokes
\* run_control_loop() itself
CallRunControlLoop ==
    /\ pc = "idle"
    /\ entry' = "run_control_loop"
    /\ robot' = "closable"
    /\ envDim' \in Dims
    /\ agentDim' \in Dims
    /\ phase' = "AgentReady"
    /\ pc' = "validate_agent_output"
    /\ UNCHANGED << err, closeCalls, faults, frame, hist >>
    /\ UNCHANGED varsG

\* validate_agent_output: assert len(start_pos) == len(joints)
ValidateAgentOutput ==
    /\ pc = "validate_agent_output"
    /\ \E sp \in Vec(agentDim, ActVals), joints \in Vec(envDim, ObsVals) :
          IF Len(sp) # Len(joints)
          THEN Raise("AssertionError")
          ELSE /\ pc' = "safety_gate"
               /\ err' = err
               /\ start_pos' = sp
               /\ UNCHANGED << iter, stepCmd, stepObs, stepAct, curr_joints,
                               reset_joints, steps >>
    /\ UNCHANGED << mgr, faults, hist >>
    /\ UNCHANGED varsG

\* the gate read as np.argmin instead of np.argmax
GateTripsArgMin(sp, joints) ==
    LET abs_deltas == AbsDeltas(sp, joints)
        id == CHOOSE i \in 1..Len(sp) : \A j \in 1..Len(sp) : abs_deltas[i] <= abs_deltas[j]
    IN  abs_deltas[id] > MaxJointDelta

\* abs_deltas[np.argmax(abs_deltas)] > max_joint_delta
GateTrips(sp, joints) ==
    LET abs_deltas == AbsDeltas(sp, joints)
        id_max_joint_delta == ArgMax(abs_deltas)
    IN  abs_deltas[id_max_joint_delta] > MaxJointDelta

\* the initial-delta check: print the table and return, or go on
SafetyGate ==
    /\ pc = "safety_gate"
    /\ \E joints \in Vec(envDim, ObsVals) :
          /\ firstExceeds' =
                (\E i \in 1..Len(joints) : Abs(start_pos[i] - joints[i]) > MaxJointDelta)
          /\ IF GateTrips(start_pos, joints)
             THEN pc' = ReturnFromLoop /\ phase' = phase
             ELSE pc' = "converging" /\ phase' = "SafetyChecked"
    /\ DropFrame
    /\ UNCHANGED << entry, robot, envDim, agentDim, closeCalls, err, faults,
                    runTicks, stepCalls, skipped >>
    /\ UNCHANGED varsG

\* the threshold test without the scaling that follows it
ConvergeCommandUnscaled(command_joints, current_joints) ==
    Exact([i \in 1..Len(current_joints) |-> command_joints[i]])

\* the scaling inverted: delta * max_joint_delta / max_delta
ConvergeCommandInverted(command_joints, current_joints) ==
    LET delta == [i \in 1..Len(current_joints) |-> command_joints[i] - current_joints[i]]
        max_joint_delta == MaxAbs(delta)
    IN  IF max_joint_delta > max_delta
        THEN [num |-> [i \in 1..Len(delta) |->
                          current_joints[i] * max_delta + delta[i] * max_joint_delta],
              den |-> max_delta]
        ELSE Exact([i \in 1..Len(delta) |-> current_joints[i] + delta[i]])

\* delta = command_joints - current_joints, scaled by max_delta over its
\* largest magnitude when that exceeds max_delta; current_joints + delta
ConvergeCommand(command_joints, current_joints) ==
    LET delta == [i \in 1..Len(current_joints) |-> command_joints[i] - current_joints[i]]
        max_joint_delta == MaxAbs(delta)
    IN  IF max_joint_delta > max_delta
        THEN [num |-> [i \in 1..Len(delta) |->
                          current_joints[i] * max_joint_delta + delta[i] * max_delta],
              den |-> max_joint_delta]
        ELSE Exact([i \in 1..Len(delta) |-> current_joints[i] + delta[i]])

\* an iteration of for _ in range(25), up to the command: obs,
\* command_joints = agent.act(obs), delta, scaling
ConvergeObserve ==
    /\ pc = "converging"
    /\ iter < ConvergeIters
    /\ \E obs \in Vec(envDim, ObsVals), command_joints \in Vec(agentDim, ActVals) :
          /\ stepObs' = obs
          /\ stepAct' = command_joints
          /\ stepCmd' = ConvergeCommand(command_joints, obs)
    /\ phase' = "Converging"
    /\ pc' = "converge_step"
    /\ UNCHANGED << entry, robot, envDim, agentDim, closeCalls, err, faults, hist,
                    iter, start_pos, curr_joints, reset_joints, steps >>
    /\ UNCHANGED varsG

\* self.env.step(current_joints + delta), and the next iteration
ConvergeStep ==
    /\ pc = "converge_step"
    /\ stepCalls' = stepCalls + 1
    /\ iter' = iter + 1
    /\ stepCmd' = NoCmd
    /\ stepObs' = NoVec
    /\ stepAct' = NoVec
    /\ pc' = "converging"
    /\ UNCHANGED << mgr, err, faults, runTicks, firstExceeds, skipped,
                    start_pos,
                    curr_joints, reset_joints, steps >>
    /\ UNCHANGED varsG

\* the for loop is exhausted: print, enter while True
EnterMainLoop ==
    /\ pc = "converging"
    /\ iter = ConvergeIters
    /\ pc' = "running"
    /\ phase' = "Running"
    /\ UNCHANGED << entry, robot, envDim, agentDim, closeCalls, err, faults,
                    frame, hist >>
    /\ UNCHANGED varsG

\* an iteration of while True, up to the command: obs, action = agent.act(obs)
RunObserve ==
    /\ pc = "running"
    /\ runTicks < MaxRunTicks
    /\ \E obs \in Vec(envDim, ObsVals), action \in Vec(agentDim, ActVals) :
          /\ stepObs' = obs
          /\ stepAct' = action
          /\ stepCmd' = Exact(action)
    /\ pc' = "run_step"
    /\ UNCHANGED << mgr, err, faults, hist, iter, start_pos, curr_joints,
                    reset_joints, steps >>
    /\ UNCHANGED varsG

\* self.env.step(action), and the next iteration
RunStep ==
    /\ pc = "run_step"
    /\ stepCalls' = stepCalls + 1
    /\ runTicks' = runTicks + 1
    /\ stepCmd' = NoCmd
    /\ stepObs' = NoVec
    /\ stepAct' = NoVec
    /\ pc' = "running"
    /\ UNCHANGED << mgr, err, faults, firstExceeds, skipped, iter, start_pos,
                    curr_joints,
                    reset_joints, steps >>
    /\ UNCHANGED varsG

LoopPcs == {"msp_body", "msp_loop", "validate_agent_output", "safety_gate",
            "converging", "converge_step", "running", "run_step"}

\* a call of the environment or the agent raises
EnvRaises ==
    /\ pc \in LoopPcs
    /\ Raise("Exception")
    /\ faults' = faults \cup {"env_raise"}
    /\ UNCHANGED << mgr, hist >>
    /\ UNCHANGED varsG

\* KeyboardInterrupt during start positioning or the control loop
InterruptLoop ==
    /\ pc \in LoopPcs
    /\ Raise("KeyboardInterrupt")
    /\ faults' = faults \cup {"intr_body"}
    /\ UNCHANGED << mgr, hist >>
    /\ UNCHANGED varsG

NextLaunch ==
    \/ CallLaunch
    \/ SetupRobot
    \/ SetupCommunication
    \/ SetupAgent
    \/ SetupRaises
    \/ LaunchCallsStart
    \/ InterruptBody
    \/ HandleKeyboardInterrupt
    \/ HandleException
    \/ InterruptHandler
    \/ Finally
    \/ CloseReturns
    \/ CloseFails
    \/ CallMoveToStart
    \/ MoveToStartBody
    \/ MoveToStartStep
    \/ MoveToStartReturn
    \/ CallRunControlLoop
    \/ ValidateAgentOutput
    \/ SafetyGate
    \/ ConvergeObserve
    \/ ConvergeStep
    \/ EnterMainLoop
    \/ RunObserve
    \/ RunStep
    \/ EnvRaises
    \/ InterruptLoop

\* no gripper object takes part in the orchestrator's run
NoGripper ==
    /\ binary_mode = FALSE
    /\ threshold = 0
    /\ position = Null
    /\ u_position = Absent
    /\ stop_flag = FALSE
    /\ lock = "free"
    /\ pollPc = "none"
    /\ pos = Null
    /\ polls = 0
    /\ mainPc = "none"
    /\ target_pos = Null
    /\ moves = 0
    /\ sent = << >>
    /\ lastGet = NoGet
    /\ calls = << >>
    /\ cmds = 0

InitL == InitLaunch /\ NoGripper

SpecLaunch == InitL /\ [][NextLaunch]_vars


\* ========================================================== DhGripper
\* positions are in tenths of a device unit (0..1000.0)
\* thresholds a caller constructs with: 0, 500, 1001
Thresholds == {0, 5000, HighTarget + 10}
\* positions a caller passes to move(): 0, 499.5, 500, 1000
PosInputs == {0, 4995, 5000, HighTarget}
\* positions the device reports
ReadVals == {0, 1000}

\* DhGripper(port, binary_mode, threshold): the fields set, the polling
\* thread started, the constructor in its time.sleep(0.5)
InitGripper ==
    /\ binary_mode \in BOOLEAN
    /\ threshold \in (IF binary_mode THEN Thresholds ELSE {HighTarget \div 2})
    /\ position = Null
    /\ u_position = Absent
    /\ stop_flag = FALSE
    /\ lock = "free"
    /\ pollPc = "while"
    /\ pos = Null
    /\ polls = 0
    /\ mainPc = "init_sleep"
    /\ target_pos = Null
    /\ moves = 0
    /\ sent = << >>
    /\ lastGet = NoGet
    /\ calls = << >>
    /\ cmds = 0

\* time.sleep(0.5) ends and the constructor returns: by then the polling
\* thread has come to its first device read, which may still be running
ConstructorReturns ==
    /\ mainPc = "init_sleep"
    /\ pollPc \notin {"while", "acquire"}
    /\ mainPc' = "idle"
    /\ UNCHANGED << binary_mode, threshold, position, u_position, stop_flag, lock,
                    pollPc, pos, polls, target_pos, moves, sent, lastGet, calls, cmds >>
    /\ UNCHANGED varsL

\* ------------------------------------------------- _update_position
\* while not self._stop_flag
PollWhile ==
    /\ pollPc = "while"
    /\ pollPc' = IF stop_flag THEN "exited" ELSE "acquire"
    /\ UNCHANGED << binary_mode, threshold, position, u_position, stop_flag, lock,
                    pos, polls, mainPc, target_pos, moves, sent, lastGet, calls, cmds >>
    /\ UNCHANGED varsL

\* with self._lock: the lock is taken when it is free
PollAcquire ==
    /\ pollPc = "acquire"
    /\ lock = "free"
    /\ lock' = "poller"
    /\ pollPc' = "read_pos"
    /\ UNCHANGED << binary_mode, threshold, position, u_position, stop_flag,
                    pos, polls, mainPc, target_pos, moves, sent, lastGet, calls, cmds >>
    /\ UNCHANGED varsL

\* pos = self.gripper.read_pos(is_read=True) returns; the with block ends
PollRead ==
    /\ pollPc = "read_pos"
    /\ \E v \in ReadVals : pos' = v
    /\ lock' = "free"
    /\ pollPc' = "store"
    /\ UNCHANGED << binary_mode, threshold, position, u_position, stop_flag,
                    polls, mainPc, target_pos, moves, sent, lastGet, calls, cmds >>
    /\ UNCHANGED varsL

\* read_pos raises: the with block releases the lock and, nothing in
\* _update_position catching it, the exception ends the thread
PollReadFails ==
    /\ pollPc = "read_pos"
    /\ lock' = "free"
    /\ pollPc' = "dead"
    /\ UNCHANGED << binary_mode, threshold, position, u_position, stop_flag,
                    pos, polls, mainPc, target_pos, moves, sent, lastGet, calls, cmds >>
    /\ UNCHANGED varsL

\* self._position = pos; time.sleep(0.01)
PollStore ==
    /\ pollPc = "store"
    /\ u_position' = pos
    /\ pos' = Null
    /\ polls' = Min(polls + 1, MaxPolls)
    /\ pollPc' = "while"
    /\ UNCHANGED << binary_mode, threshold, position, stop_flag, lock,
                    mainPc, target_pos, moves, sent, lastGet, calls, cmds >>
    /\ UNCHANGED varsL

\* --------------------------------------------- get_current_position
\* pos = self._position; return pos.  Reading an attribute that was
\* never assigned raises AttributeError.
GetCurrentPosition ==
    /\ mainPc = "idle"
    /\ lastGet' = IF u_position = Absent
                  THEN [kind |-> "AttributeError", val |-> Null, polls |-> polls, lock |-> lock]
                  ELSE [kind |-> "returned", val |-> u_position, polls |-> polls, lock |-> lock]
    /\ UNCHANGED << binary_mode, threshold, position, u_position, stop_flag, lock,
                    pollPc, pos, polls, mainPc, target_pos, moves, sent, calls, cmds >>
    /\ UNCHANGED varsL

\* ------------------------------------------------------------- move
\* the bounds exchanged: 1000 below the threshold, 0 from it on
CollapseSwapped(p, t) == IF p < t THEN HighTarget ELSE 0

\* target_pos = 0 if position < self.threshold else 1000
Collapse(p, t) == IF p < t THEN 0 ELSE HighTarget

\* int(target_pos): truncation toward zero
IntOf(p) == IF p < 0 THEN -(((-p) \div 10) * 10) ELSE (p \div 10) * 10

\* a call of move() begins: its target; the call
\* before it is kept, the earlier ones are not
Called(t, o) ==
    Append(IF calls = << >> THEN << >> ELSE << calls[Len(calls)] >>,
           [target |-> t, outcome |-> o])

\* the running call of move() ends
Ended(o) == [calls EXCEPT ![Len(calls)].outcome = o]

\* move without the comparison with self.position
MoveBeginNoDebounce ==
    /\ mainPc = "idle"
    /\ moves < MaxMoves
    /\ moves' = moves + 1
    /\ lastGet' = NoGet
    /\ cmds' = 0
    /\ \E p \in PosInputs :
          LET t == IF binary_mode THEN Collapse(p, threshold) ELSE p
          IN  /\ position' = IF binary_mode THEN t ELSE position
              /\ target_pos' = t
              /\ mainPc' = "acquire"
              /\ calls' = Called(t, "calling")
    /\ UNCHANGED << binary_mode, threshold, u_position, stop_flag, lock, pollPc,
                    pos, polls, sent >>
    /\ UNCHANGED varsL

\* move(position, speed, force) up to the try: the binary collapse, the
\* comparison with self.position, the record of the new target
MoveBegin ==
    /\ mainPc = "idle"
    /\ moves < MaxMoves
    /\ moves' = moves + 1
    /\ lastGet' = NoGet
    /\ cmds' = 0
    /\ \E p \in PosInputs :
          IF binary_mode
          THEN IF Collapse(p, threshold) = position
               THEN /\ UNCHANGED << position, target_pos, mainPc >>
                    /\ calls' = Called(Collapse(p, threshold), "debounced")
               ELSE /\ position' = Collapse(p, threshold)
                    /\ target_pos' = Collapse(p, threshold)
                    /\ mainPc' = "acquire"
                    /\ calls' = Called(Collapse(p, threshold), "calling")
          ELSE /\ target_pos' = p
               /\ mainPc' = "acquire"
               /\ position' = position
               /\ calls' = Called(p, "calling")
    /\ UNCHANGED << binary_mode, threshold, u_position, stop_flag, lock, pollPc,
                    pos, polls, sent >>
    /\ UNCHANGED varsL

\* move enters its with block without waiting for the lock
MoveAcquireUnlocked ==
    /\ mainPc = "acquire"
    /\ lock' = lock
    /\ mainPc' = "set_force"
    /\ cmds' = cmds + 1
    /\ calls' = calls
    /\ UNCHANGED << binary_mode, threshold, position, u_position, stop_flag,
                    pollPc, pos, polls, target_pos, moves, sent, lastGet >>
    /\ UNCHANGED varsL

\* with self._lock: the lock is taken when it is free; set_force is called
MoveAcquire ==
    /\ mainPc = "acquire"
    /\ lock = "free"
    /\ lock' = "mover"
    /\ mainPc' = "set_force"
    /\ cmds' = cmds + 1
    /\ calls' = calls
    /\ UNCHANGED << binary_mode, threshold, position, u_position, stop_flag,
                    pollPc, pos, polls, target_pos, moves, sent, lastGet >>
    /\ UNCHANGED varsL

\* self.gripper.set_force(val=force) returns; set_vel is called
MoveSetForce ==
    /\ mainPc = "set_force"
    /\ mainPc' = "set_vel"
    /\ cmds' = cmds + 1
    /\ calls' = calls
    /\ UNCHANGED << binary_mode, threshold, position, u_position, stop_flag, lock,
                    pollPc, pos, polls, target_pos, moves, sent, lastGet >>
    /\ UNCHANGED varsL

\* self.gripper.set_vel(val=speed) returns; set_pos is called
MoveSetVel ==
    /\ mainPc = "set_vel"
    /\ mainPc' = "set_pos"
    /\ cmds' = cmds + 1
    /\ calls' = calls
    /\ UNCHANGED << binary_mode, threshold, position, u_position, stop_flag, lock,
                    pollPc, pos, polls, target_pos, moves, sent, lastGet >>
    /\ UNCHANGED varsL

\* self.gripper.set_pos(val=int(target_pos), ...) returns; the with
\* block ends; time.sleep(0.008); move returns
MoveSetPos ==
    /\ mainPc = "set_pos"
    /\ sent' = << IntOf(target_pos) >>
    /\ lock' = IF lock = "mover" THEN "free" ELSE lock
    /\ target_pos' = Null
    /\ mainPc' = "idle"
    /\ calls' = Ended("sent")
    /\ cmds' = cmds
    /\ UNCHANGED << binary_mode, threshold, position, u_position, stop_flag,
                    pollPc, pos, polls, moves, lastGet >>
    /\ UNCHANGED varsL

\* the exception of the device call leaves move() for the caller
MoveDeviceFailsPropagates ==
    /\ mainPc \in {"set_force", "set_vel", "set_pos"}
    /\ lock' = IF lock = "mover" THEN "free" ELSE lock
    /\ target_pos' = Null
    /\ mainPc' = "idle"
    /\ calls' = Ended("raised")
    /\ cmds' = cmds
    /\ UNCHANGED << binary_mode, threshold, position, u_position, stop_flag,
                    pollPc, pos, polls, moves, sent, lastGet >>
    /\ UNCHANGED varsL

\* the handler takes back the record of the target that was not delivered
MoveDeviceFailsForgets ==
    /\ mainPc \in {"set_force", "set_vel", "set_pos"}
    /\ lock' = IF lock = "mover" THEN "free" ELSE lock
    /\ target_pos' = Null
    /\ position' = Null
    /\ mainPc' = "idle"
    /\ calls' = Ended("swallowed")
    /\ cmds' = cmds
    /\ UNCHANGED << binary_mode, threshold, u_position, stop_flag,
                    pollPc, pos, polls, moves, sent, lastGet >>
    /\ UNCHANGED varsL

\* the lock taken with acquire() and released only after set_pos, so
\* that an exception skips the release
MoveDeviceFailsKeepsLock ==
    /\ mainPc \in {"set_force", "set_vel", "set_pos"}
    /\ lock' = lock
    /\ target_pos' = Null
    /\ mainPc' = "idle"
    /\ calls' = Ended("swallowed")
    /\ cmds' = cmds
    /\ UNCHANGED << binary_mode, threshold, position, u_position, stop_flag,
                    pollPc, pos, polls, moves, sent, lastGet >>
    /\ UNCHANGED varsL

\* one of the three device calls raises: the with block releases the
\* lock, except Exception prints, time.sleep(0.008), move returns
MoveDeviceFails ==
    /\ mainPc \in {"set_force", "set_vel", "set_pos"}
    /\ lock' = IF lock = "mover" THEN "free" ELSE lock
    /\ target_pos' = Null
    /\ mainPc' = "idle"
    /\ calls' = Ended("swallowed")
    /\ cmds' = cmds
    /\ UNCHANGED << binary_mode, threshold, position, u_position, stop_flag,
                    pollPc, pos, polls, moves, sent, lastGet >>
    /\ UNCHANGED varsL

NextGripper ==
    \/ ConstructorReturns
    \/ PollWhile
    \/ PollAcquire
    \/ PollRead
    \/ PollReadFails
    \/ PollStore
    \/ GetCurrentPosition
    \/ MoveBegin
    \/ MoveAcquire
    \/ MoveSetForce
    \/ MoveSetVel
    \/ MoveSetPos
    \/ MoveDeviceFails

\* no orchestrator takes part in the gripper's run
NoLaunch == InitLaunch

InitG == InitGripper /\ NoLaunch

SpecGripper == InitG /\ [][NextGripper]_vars

\* The scheduling of the two threads: a thread that can run does run; a
\* device call returns or raises; a thread waiting for the lock gets it
\* when the other keeps releasing it, the poller sleeping 10 ms outside
\* the lock in every iteration and move() 8 ms after every command.  The
\* caller is free never to call again.
FairGripper ==
    /\ WF_vars(PollWhile)
    /\ SF_vars(PollAcquire)
    /\ WF_vars(PollRead \/ PollReadFails)
    /\ WF_vars(PollStore)
    /\ SF_vars(MoveAcquire)
    /\ WF_vars(MoveSetForce \/ MoveSetVel \/ MoveSetPos \/ MoveDeviceFails)

SpecGripperFair == SpecGripper /\ FairGripper


\* ============================================================ claims
\* |cmd[i] - obs[i]| <= cap in every joint, for a rational cmd
Within(cmd, obs, cap) ==
    \A i \in 1..Len(obs) : Abs(cmd.num[i] - obs[i] * cmd.den) <= cap * cmd.den

\* some joint of cmd is exactly cap away from obs
Touches(cmd, obs, cap) ==
    \E i \in 1..Len(obs) : Abs(cmd.num[i] - obs[i] * cmd.den) = cap * cmd.den

\* an env.step call is being made with stepCmd
Stepping == pc \in {"converge_step", "run_step"} \/ (pc = "msp_loop" /\ iter > 0)

Interrupted == faults \cap {"intr_body", "intr_handler", "intr_close"} # {}

\* C1: when the agent's first output differs from the current joints by
\* more than 1.0 in some joint, the control loop is left before
\* Converging: the orchestrator is never in SafetyChecked, Converging or
\* Running and env.step has not been called.
C1_SafetyGate ==
    firstExceeds =>
        /\ pc \notin {"converging", "converge_step", "running", "run_step"}
        /\ phase \notin {"SafetyChecked", "Converging", "Running"}
        /\ stepCalls = 0

\* the gate has tripped and run_control_loop has returned without an error
C1_Witness ==
    /\ firstExceeds
    /\ entry = "run_control_loop"
    /\ pc = "done"
    /\ err = None

\* C2 as stated: in every phase, the vector passed to env.step is within
\* 1.0 of the joints observed for it, in every joint.
C2_Original == Stepping => Within(stepCmd, stepObs, MaxJointDelta)

\* C2 amended: a Converging command is within 1.0 of the joints observed
\* in its tick; a Running command is the agent's output as it is; a start
\* positioning command is within the initial distance to the target of
\* the joints read at the start.
C2_Amended ==
    /\ pc = "converge_step" => Within(stepCmd, stepObs, MaxJointDelta)
    /\ pc = "run_step" => stepCmd = Exact(stepAct)
    /\ (pc = "msp_loop" /\ iter > 0) =>
          Within(stepCmd, stepObs, MaxAbs(AbsDeltas(curr_joints, reset_joints)))

\* a Running tick whose command is more than 1.0 from the observed joints,
\* after a Converging phase that was held to the bound
C2_Witness ==
    /\ pc = "run_step"
    /\ stepCalls >= ConvergeIters
    /\ ~Within(stepCmd, stepObs, MaxJointDelta)

\* C3: Converging makes exactly 25 iterations before Running, and the
\* command of each is within 1.0 of the joints read in that iteration;
\* when the raw delta exceeds 1.0 its largest component becomes exactly 1.0.
C3_ConvergingBound ==
    /\ pc = "converge_step" =>
          /\ iter < ConvergeIters
          /\ Within(stepCmd, stepObs, max_delta)
          /\ MaxAbs(AbsDeltas(stepAct, stepObs)) > max_delta =>
                Touches(stepCmd, stepObs, max_delta)
    /\ pc = "converging" => iter <= ConvergeIters /\ stepCalls = iter
    /\ pc \in {"running", "run_step"} => stepCalls = ConvergeIters + runTicks

\* the 25th iteration, with a raw delta of more than 1.0
C3_Witness ==
    /\ pc = "converge_step"
    /\ iter = ConvergeIters - 1
    /\ MaxAbs(AbsDeltas(stepAct, stepObs)) > max_delta

\* C4: a launch whose agent output length differs from the environment's
\* joint count ends with the dimension assertion, before any env.step.
C4_DimensionMismatch ==
    (entry = "launch" /\ pc = "done" /\ faults = {} /\ agentDim # envDim) =>
        (err = "AssertionError" /\ stepCalls = 0)

\* C5: a launch in which nothing external fails does not end in Failed.
C5_EndToEnd == (entry = "launch" /\ faults = {}) => phase # "Failed"

C8_MutualExclusion ==
    /\ ~(pollPc = "read_pos" /\ mainPc \in {"set_force", "set_vel", "set_pos"})
    /\ pollPc = "read_pos" => lock = "poller"
    /\ mainPc \in {"set_force", "set_vel", "set_pos"} => lock = "mover"

\* the polling thread waits for the lock in the middle of a move
C8_Witness ==
    /\ mainPc = "set_vel"
    /\ pollPc = "acquire"
    /\ polls > 0

\* C9: get_current_position() returns None when no poll has completed
\* and a position when one has; it never fails.
C9_Sentinel ==
    lastGet.kind # "none" =>
        /\ lastGet.kind = "returned"
        /\ lastGet.val = Null <=> lastGet.polls = 0

\* C10: a failed read does not end the polling task.
C10_PollingSurvives == ~stop_flag => pollPc # "dead"

\* C11: in binary mode, when two consecutive calls of move() collapse to
\* the same bound, the second is left before the try: it makes no device
\* call, so the two together deliver at most one command.
C11_Debounce ==
    (binary_mode /\ Len(calls) = 2 /\ calls[1].target = calls[2].target) =>
        /\ calls[2].outcome = "debounced"
        /\ cmds = 0
        /\ mainPc = "idle"

\* a delivered command for the high bound, then a second call for the
\* same bound that was left at the comparison
C11_Witness ==
    /\ binary_mode
    /\ Len(calls) = 2
    /\ calls[1].outcome = "sent"
    /\ calls[2].outcome = "debounced"
    /\ calls[2].target = HighTarget
    /\ sent = << HighTarget >>

C13_FireAndForget ==
    \A i \in 1..Len(calls) :
        /\ calls[i].outcome \in {"debounced", "calling", "sent", "swallowed"}
        /\ calls[i].outcome # "calling" => (i < Len(calls) \/ mainPc = "idle")

\* set_pos, the third device call, raised and move() returned
C13_Witness ==
    /\ calls # << >>
    /\ calls[Len(calls)].outcome = "swallowed"
    /\ cmds = 3
    /\ mainPc = "idle"

\* C14: start positioning makes at most 100 steps, and so at most 100
\* env.step calls; it makes none only when every joint is less than 0.01
\* from its target.
C14_StepBound ==
    /\ pc = "msp_loop" =>
          /\ steps <= MaxSteps
          /\ iter <= steps
          /\ steps = 0 =>
                \A i \in 1..Len(curr_joints) :
                    Abs(curr_joints[i] - reset_joints[i]) < StepSize
    /\ entry = "move_to_start_position" => stepCalls <= MaxSteps

\* a target 1.5 away: the cap applies and all 100 steps have been made
C14_Witness ==
    /\ pc = "msp_loop"
    /\ MaxAbs(AbsDeltas(curr_joints, reset_joints)) > MaxSteps * StepSize
    /\ steps = MaxSteps
    /\ iter = MaxSteps
    /\ stepCalls = MaxSteps

\* C15: start positioning left on a shape mismatch has called env.step
\* zero times and has returned without an exception; and a launch gets
\* past start positioning into the control loop, so that a launch in which
\* nothing external fails does not end with the error of that call.
C15_ShapeMismatch ==
    /\ (entry = "move_to_start_position" /\ skipped = "shape_mismatch") =>
          (stepCalls = 0 /\ err = None /\ pc = "done")
    /\ (entry = "launch" /\ pc = "done" /\ faults = {}) => err # "TypeError"

\* C16: the polling task is stopped through the flag: a task that keeps
\* iterating has its flag set at some point, and once the flag is set the
\* task exits.
C16_CooperativeStop ==
    /\ []<>(pollPc = "while") => <>stop_flag
    /\ stop_flag ~> (pollPc = "exited")

\* C17: the polled position is stored while the polling thread holds the
\* lock, and get_current_position() reads it holding the lock.
C17_LockDiscipline ==
    /\ pollPc = "store" => lock = "poller"
    /\ lastGet.kind # "none" => lastGet.lock = "caller"

\* C20: in binary mode the target is recorded in self.position before
\* the device is called, so a call for the same bound that follows a call
\* whose device call raised makes no device call.
C20_RecordBeforeCommand ==
    /\ (binary_mode /\ mainPc \in {"acquire", "set_force", "set_vel", "set_pos"}) =>
          position = target_pos
    /\ (binary_mode /\ Len(calls) = 2 /\ calls[1].outcome = "swallowed"
          /\ calls[2].target = calls[1].target) =>
          (calls[2].outcome = "debounced" /\ cmds = 0)

\* the first command raised, the second call for the same bound was
\* left at the comparison: the record says 1000, the device received nothing
C20_Witness ==
    /\ binary_mode
    /\ Len(calls) = 2
    /\ calls[1].outcome = "swallowed"
    /\ calls[2].outcome = "debounced"
    /\ position = HighTarget
    /\ sent = << >>

\* C18: when start positioning makes at least one step, the vector of
\* its last env.step call is the target.
C18_ReachesTarget ==
    (pc = "msp_loop" /\ steps >= 1 /\ iter = steps) =>
        \A i \in 1..Len(reset_joints) :
            stepCmd.num[i] = reset_joints[i] * stepCmd.den

\* a device call of move() is in progress
InDeviceCall == mainPc \in {"set_force", "set_vel", "set_pos"}

\* C19: the lock is held by the polling thread only during its read and
\* by move() only during its device calls, so it is free again after every
\* poll iteration and every move(), a failed one included; and a thread
\* that waits for the lock gets it.
C19_NoLockLeak ==
    /\ [](lock = "poller" <=> pollPc = "read_pos")
    /\ [](lock = "mover" <=> InDeviceCall)
    /\ (pollPc = "acquire" ~> pollPc = "read_pos")
    /\ (mainPc = "acquire" ~> mainPc = "set_force")

\* move() waits for the lock while the poller reads, after an earlier
\* move() whose device call raised
C19_Witness ==
    /\ mainPc = "acquire"
    /\ lock = "poller"
    /\ Len(calls) = 2
    /\ calls[1].outcome = "swallowed"

=============================================================================
